---- MODULE Spec2Model ----
(***************************************************************************)
(* Model of orbital_launch.py: the Timer, the Telemetry recorder, the      *)
(* flight-phase state machine of OrbitalLaunch and its fixed-period        *)
(* control loop.                                                           *)
(*                                                                         *)
(* Wall-clock time (time.time()) is counted in milliseconds; the mission   *)
(* time of the ut stream is a separate clock in abstract units.            *)
(***************************************************************************)
EXTENDS Integers, Sequences, FiniteSets, TLC

(* ----------------------------- bounds --------------------------------- *)

\* The loop is stopped once the wall clock has passed MaxTime (ms).
MaxTime == 1700

\* The recording runs of the main program are followed up to MaxRecTime (ms).
MaxRecTime == 500

\* Ticks that would make the record longer than MaxRecord rows are not taken.
MaxRecord == 3

\* Direct calls of Telemetry.stop_recording are followed up to MaxExports
\* writes of the file.
MaxExports == 2

\* The recording ascents are followed while the record has fewer than
\* MaxAscentRecord rows.
MaxAscentRecord == 19

\* Values the altitude and apoapsis streams and vessel.thrust deliver.
Altitudes == {100, 500, 600, 70000, 70001}
Apoapses == {75000, 80000}
Thrusts == {0, 1}

\* Latency (ms) of the stream reads of one iteration, before _check_phase
\* reads the clock.
ReadCosts == {0, 50}

\* Advance of the ut stream between two reads of it.
UtSteps == {0, 1}

\* Stream values of the recording ascents: an altitude inside and one
\* outside the atmosphere, an apoapsis above the cut-off threshold, a ut
\* stream that advances between reads.
AscentAltitudes == {600, 70001}
AscentApoapses == {80000}
AscentUtSteps == {1}

\* Mission time at the first read of the ut stream.
UtStarts == {3}

(* --------------------------- FlightPhase ------------------------------ *)

\* The members of the enum, in the order of their values 1..12.
FlightPhaseMembers ==
    << "LAUNCHPAD", "INITIAL_CLIMB", "INITIAL_TURN", "GRAVITY_TURN", "MECO",
       "MAIN_STAGE_SEPARATION", "SECOND_ENGINE_START",
       "SUBORBITAL_ACCELERATION", "SECO",
       "IN_SPACE_TOWARDS_CIRCULARIZATION", "CIRCULARIZATION", "ORBIT" >>

FlightPhase == { FlightPhaseMembers[i] : i \in 1..Len(FlightPhaseMembers) }

\* FlightPhase.X.value
PhaseValue(p) == CHOOSE i \in 1..Len(FlightPhaseMembers) : FlightPhaseMembers[i] = p

(* ------------------------------ Timer --------------------------------- *)

\* An attribute holding None is the empty sequence, one holding a Timer is a
\* one-element sequence.
None == << >>

\* Timer.__init__ called at wall-clock instant t
Timer(t, duration) == << [start_time |-> t, duration |-> duration] >>

\* Slip: the duration is scaled as if the clock counted in another unit.
Elapsed_scaled(timer, t) == t > timer[1].start_time + timer[1].duration * 1000

\* Slip: non-strict comparison.
Elapsed_ge(timer, t) == t >= timer[1].start_time + timer[1].duration

\* Timer.elapsed called at wall-clock instant t
Elapsed(timer, t) == t > timer[1].start_time + timer[1].duration

(* ---------------------------- Telemetry ------------------------------- *)

Header == << "ut", "altitude", "drag", "TAS", "mach", "density", "Q", "temperature" >>

\* The readings of the six atmospheric streams (drag magnitude, TAS, mach,
\* density, Q, temperature) are opaque to the controller.
Atmo == << 0, 0, 0, 0, 0, 0 >>

\* Telemetry.__init__
TelemetryInit ==
    [ do_record |-> FALSE, record |-> << Header >>, altitude |-> 0,
      apoapsis |-> 0, start_time |-> 0, elapsed |-> 0 ]

\* Telemetry.init_time, the ut stream delivering u
init_time(tel, u) == [tel EXCEPT !.start_time = u]

\* Slip: the refresh of altitude and apoapsis sits inside `if self.do_record`.
update_refresh_when_recording(tel, alt, apo, u) ==
    IF tel.do_record
    THEN [tel EXCEPT !.altitude = alt, !.apoapsis = apo,
                     !.elapsed = u - tel.start_time,
                     !.record = Append(tel.record,
                                       << u - tel.start_time, alt >> \o Atmo)]
    ELSE tel

\* Slip: the operands of the elapsed-time subtraction are swapped.
update_elapsed_swapped(tel, alt, apo, u) ==
    LET t1 == [tel EXCEPT !.altitude = alt, !.apoapsis = apo]
    IN  IF tel.do_record
        THEN [t1 EXCEPT !.elapsed = tel.start_time - u,
                        !.record = Append(tel.record,
                                          << tel.start_time - u, alt >> \o Atmo)]
        ELSE t1

\* Telemetry.update, the streams delivering alt, apo and (when recording) u
update(tel, alt, apo, u) ==
    LET t1 == [tel EXCEPT !.altitude = alt, !.apoapsis = apo]
    IN  IF tel.do_record
        THEN [t1 EXCEPT !.elapsed = u - tel.start_time,
                        !.record = Append(tel.record,
                                          << u - tel.start_time, alt >> \o Atmo)]
        ELSE t1

\* Telemetry._write_atmospheric_record: the rows handed to the csv writer
write_atmospheric_record(tel, files) == Append(files, tel.record)

\* Slip: the buffer is emptied once it is written.
stop_recording_reset(tel, files) ==
    [ telemetry |-> [tel EXCEPT !.do_record = FALSE, !.record = << Header >>],
      exports   |-> write_atmospheric_record(tel, files) ]

\* Slip: the flag is left set.
stop_recording_keep_flag(tel, files) ==
    [ telemetry |-> tel, exports |-> write_atmospheric_record(tel, files) ]

\* Telemetry.stop_recording: the new telemetry state and the files written
stop_recording(tel, files) ==
    [ telemetry |-> [tel EXCEPT !.do_record = FALSE],
      exports   |-> write_atmospheric_record([tel EXCEPT !.do_record = FALSE], files) ]

(* -------------------------- OrbitalLaunch ----------------------------- *)

\* The conditions of _check_phase, one per `if`.
cond_INITIAL_CLIMB(altitude) == altitude > 100

\* Slip: non-strict comparison.
cond_INITIAL_TURN_ge(altitude) == altitude >= 500

cond_INITIAL_TURN(altitude) == altitude > 500

cond_GRAVITY_TURN(vessel_thrust) == vessel_thrust < 1

cond_MECO(timer, t) == Elapsed(timer, t)

cond_MAIN_STAGE_SEPARATION(timer, t) == Elapsed(timer, t)

cond_SUBORBITAL_ACCELERATION(apoapsis) == apoapsis > 75000

\* Slip: the threshold of the initial turn is used for the exit from SECO.
cond_SECO_turn_threshold(altitude) == altitude > 500

\* Slip: the apoapsis threshold is used for the altitude.
cond_SECO_apoapsis_threshold(altitude) == altitude > 75000

cond_SECO(altitude) == altitude > 70000

\* Slip: the timer is created with no duration.
NewMecoTimer_zero(t) == Timer(t, 0)

\* Timer(0.5)
NewMecoTimer(t) == Timer(t, 500)

\* The phase each branch of _check_phase assigns to self.phase.
after_LAUNCHPAD == "INITIAL_CLIMB"

\* Slip: the branch assigns the phase after the next.
after_INITIAL_CLIMB_skip == "GRAVITY_TURN"

after_INITIAL_CLIMB == "INITIAL_TURN"

after_INITIAL_TURN == "GRAVITY_TURN"

after_GRAVITY_TURN == "MECO"

after_MECO == "MAIN_STAGE_SEPARATION"

\* Slip: the enum member following MAIN_STAGE_SEPARATION is assigned.
after_MAIN_STAGE_SEPARATION_enum_next == "SECOND_ENGINE_START"

after_MAIN_STAGE_SEPARATION == "SUBORBITAL_ACCELERATION"

\* Slip: the branch assigns the other cut-off phase.
after_SUBORBITAL_ACCELERATION_regress == "MECO"

after_SUBORBITAL_ACCELERATION == "SECO"

after_SECO == "IN_SPACE_TOWARDS_CIRCULARIZATION"

\* Slip: the MECO branch assigns its new timer to meco_timer_1.
check_phase_timer_slip(self, altitude, apoapsis, vessel_thrust, t) ==
    LET stay == [phase |-> self.phase, meco_timer_1 |-> self.meco_timer_1,
                 meco_timer_2 |-> self.meco_timer_2, changed |-> FALSE]
        go(p) == [stay EXCEPT !.phase = p, !.changed = TRUE]
    IN  IF self.phase = "LAUNCHPAD"
        THEN go(after_LAUNCHPAD)
        ELSE IF self.phase = "INITIAL_CLIMB" /\ cond_INITIAL_CLIMB(altitude)
        THEN go(after_INITIAL_CLIMB)
        ELSE IF self.phase = "INITIAL_TURN" /\ cond_INITIAL_TURN(altitude)
        THEN go(after_INITIAL_TURN)
        ELSE IF self.phase = "GRAVITY_TURN" /\ cond_GRAVITY_TURN(vessel_thrust)
        THEN [go(after_GRAVITY_TURN) EXCEPT !.meco_timer_1 = NewMecoTimer(t)]
        ELSE IF self.phase = "MECO" /\ cond_MECO(self.meco_timer_1, t)
        THEN [go(after_MECO) EXCEPT !.meco_timer_1 = NewMecoTimer(t)]
        ELSE IF self.phase = "MAIN_STAGE_SEPARATION"
                /\ cond_MAIN_STAGE_SEPARATION(self.meco_timer_2, t)
        THEN go(after_MAIN_STAGE_SEPARATION)
        ELSE IF self.phase = "SUBORBITAL_ACCELERATION"
                /\ cond_SUBORBITAL_ACCELERATION(apoapsis)
        THEN go(after_SUBORBITAL_ACCELERATION)
        ELSE IF self.phase = "SECO" /\ cond_SECO(altitude)
        THEN go(after_SECO)
        ELSE stay

\* OrbitalLaunch._check_phase on self = [phase, meco_timer_1, meco_timer_2],
\* vessel.thrust being vessel_thrust and the wall clock showing t.  The
\* result is the new self with the return value in the field changed.
check_phase(self, altitude, apoapsis, vessel_thrust, t) ==
    LET stay == [phase |-> self.phase, meco_timer_1 |-> self.meco_timer_1,
                 meco_timer_2 |-> self.meco_timer_2, changed |-> FALSE]
        go(p) == [stay EXCEPT !.phase = p, !.changed = TRUE]
    IN  IF self.phase = "LAUNCHPAD"
        THEN go(after_LAUNCHPAD)
        ELSE IF self.phase = "INITIAL_CLIMB" /\ cond_INITIAL_CLIMB(altitude)
        THEN go(after_INITIAL_CLIMB)
        ELSE IF self.phase = "INITIAL_TURN" /\ cond_INITIAL_TURN(altitude)
        THEN go(after_INITIAL_TURN)
        ELSE IF self.phase = "GRAVITY_TURN" /\ cond_GRAVITY_TURN(vessel_thrust)
        THEN [go(after_GRAVITY_TURN) EXCEPT !.meco_timer_1 = NewMecoTimer(t)]
        ELSE IF self.phase = "MECO" /\ cond_MECO(self.meco_timer_1, t)
        THEN [go(after_MECO) EXCEPT !.meco_timer_2 = NewMecoTimer(t)]
        ELSE IF self.phase = "MAIN_STAGE_SEPARATION"
                /\ cond_MAIN_STAGE_SEPARATION(self.meco_timer_2, t)
        THEN go(after_MAIN_STAGE_SEPARATION)
        ELSE IF self.phase = "SUBORBITAL_ACCELERATION"
                /\ cond_SUBORBITAL_ACCELERATION(apoapsis)
        THEN go(after_SUBORBITAL_ACCELERATION)
        ELSE IF self.phase = "SECO" /\ cond_SECO(altitude)
        THEN go(after_SECO)
        ELSE stay

\* The result of the elapsed() call _check_phase makes at instant t, if any.
elapsed_query(self, t) ==
    IF self.phase = "MECO"
    THEN << [timer |-> self.meco_timer_1[1], at |-> t,
             result |-> Elapsed(self.meco_timer_1, t)] >>
    ELSE IF self.phase = "MAIN_STAGE_SEPARATION"
    THEN << [timer |-> self.meco_timer_2[1], at |-> t,
             result |-> Elapsed(self.meco_timer_2, t)] >>
    ELSE << >>

\* The commands each `if self.phase == X` block of _change_flight_law issues.
law_LAUNCHPAD == << "sas=False", "rcs=False" >>

law_INITIAL_CLIMB ==
    << "autopilot.engage", "target_pitch_and_heading(90,90)", "throttle=1",
       "activate_next_stage" >>

law_INITIAL_TURN == << "target_pitch_and_heading(87,90)" >>

law_GRAVITY_TURN == << "autopilot.disengage", "sas=True", "sas_mode=prograde" >>

law_MECO == << "throttle=0" >>

\* Slip: the staging command of the block is missing.
law_MAIN_STAGE_SEPARATION_none == << >>

law_MAIN_STAGE_SEPARATION == << "activate_next_stage" >>

law_SUBORBITAL_ACCELERATION == << "activate_next_stage", "throttle=1" >>

\* Slip: the throttle command of the block is missing.
law_SECO_none == << >>

law_SECO == << "throttle=0" >>

law_IN_SPACE_TOWARDS_CIRCULARIZATION == << >>

\* The commands _change_flight_law issues when self.phase = p.
law(p) ==
    (IF p = "LAUNCHPAD" THEN law_LAUNCHPAD ELSE << >>)
    \o (IF p = "INITIAL_CLIMB" THEN law_INITIAL_CLIMB ELSE << >>)
    \o (IF p = "INITIAL_TURN" THEN law_INITIAL_TURN ELSE << >>)
    \o (IF p = "GRAVITY_TURN" THEN law_GRAVITY_TURN ELSE << >>)
    \o (IF p = "MECO" THEN law_MECO ELSE << >>)
    \o (IF p = "MAIN_STAGE_SEPARATION" THEN law_MAIN_STAGE_SEPARATION ELSE << >>)
    \o (IF p = "SUBORBITAL_ACCELERATION" THEN law_SUBORBITAL_ACCELERATION ELSE << >>)
    \o (IF p = "SECO" THEN law_SECO ELSE << >>)
    \o (IF p = "IN_SPACE_TOWARDS_CIRCULARIZATION"
        THEN law_IN_SPACE_TOWARDS_CIRCULARIZATION ELSE << >>)

\* The effect of one command on the vessel: v = [control, autopilot].
apply(v, c) ==
    IF c = "sas=False" THEN [v EXCEPT !.control.sas = FALSE]
    ELSE IF c = "sas=True" THEN [v EXCEPT !.control.sas = TRUE]
    ELSE IF c = "rcs=False" THEN [v EXCEPT !.control.rcs = FALSE]
    ELSE IF c = "throttle=1" THEN [v EXCEPT !.control.throttle = 1]
    ELSE IF c = "throttle=0" THEN [v EXCEPT !.control.throttle = 0]
    ELSE IF c = "activate_next_stage"
    THEN [v EXCEPT !.control.stage = v.control.stage + 1]
    ELSE IF c = "sas_mode=prograde" THEN [v EXCEPT !.control.sas_mode = "prograde"]
    ELSE IF c = "speed_mode=surface" THEN [v EXCEPT !.control.speed_mode = "surface"]
    ELSE IF c = "autopilot.engage" THEN [v EXCEPT !.autopilot.engaged = TRUE]
    ELSE IF c = "autopilot.disengage" THEN [v EXCEPT !.autopilot.engaged = FALSE]
    ELSE IF c = "target_pitch_and_heading(90,90)"
    THEN [v EXCEPT !.autopilot.target_pitch = 90, !.autopilot.target_heading = 90]
    ELSE IF c = "target_pitch_and_heading(87,90)"
    THEN [v EXCEPT !.autopilot.target_pitch = 87, !.autopilot.target_heading = 90]
    ELSE v

RECURSIVE issue(_, _)
\* The vessel after the commands cs, in order.
issue(v, cs) == IF cs = << >> THEN v ELSE issue(apply(v, Head(cs)), Tail(cs))

\* time.sleep(0.1) of the GRAVITY_TURN block, in ms
law_sleep(p) == IF p = "GRAVITY_TURN" THEN 100 ELSE 0

\* OrbitalLaunch._change_flight_law with self.phase = p on the vessel v
change_flight_law(p, v) ==
    [ vessel |-> issue(v, law(p)), cmds |-> law(p), slept |-> law_sleep(p) ]

\* Slip: _change_flight_law is called whatever _check_phase returned.
run_flight_law_always(cp, v) == change_flight_law(cp.phase, v)

\* run(): `if self._check_phase(...): self._change_flight_law()` on the
\* result cp of _check_phase and the vessel v
run_flight_law(cp, v) ==
    IF cp.changed
    THEN change_flight_law(cp.phase, v)
    ELSE [vessel |-> v, cmds |-> << >>, slept |-> 0]

\* run(): the condition under which stop_recording is called
should_stop(tel, altitude) == tel.do_record /\ altitude > 70000

\* run(): idle_time = 0.1 - (end_time - start_time), in ms
idle(start_time, end_time) == 100 - (end_time - start_time)

\* Slip: the magnitude of idle_time is slept.
loop_sleep_magnitude(idle_time) == IF idle_time > 0 THEN idle_time ELSE 0 - idle_time

\* run(): the time slept at the end of an iteration
loop_sleep(idle_time) == IF idle_time > 0 THEN idle_time ELSE 0

(* ------------------------------ state --------------------------------- *)

VARIABLES
    pc,             \* "constructed": OrbitalLaunch() returned; "loop": in run()
    now,            \* time.time(), ms
    ut,             \* the last value the ut stream delivered
    thrust,         \* the last value read from vessel.thrust
    telemetry,      \* the Telemetry object
    exports,        \* the row sequences written to atmospheric.csv, in order
    phase,          \* OrbitalLaunch.phase
    meco_timer_1,   \* OrbitalLaunch.meco_timer_1
    meco_timer_2,   \* OrbitalLaunch.meco_timer_2
    vessel,         \* vessel.control and vessel.auto_pilot
    entered,        \* how often each block of _change_flight_law has run
    tick            \* what the last operation did (locals of run())

vars == << pc, now, ut, thrust, telemetry, exports, phase, meco_timer_1,
           meco_timer_2, vessel, entered, tick >>

\* The vessel on the pad, before the script touches it.
VesselOnPad ==
    [ control   |-> [sas |-> TRUE, rcs |-> TRUE, throttle |-> 0, stage |-> 0,
                     sas_mode |-> "stability_assist", speed_mode |-> "orbit"],
      autopilot |-> [engaged |-> FALSE, target_pitch |-> 0, target_heading |-> 0] ]

NoTick(op) ==
    [ op |-> op, start_time |-> 0, check_time |-> 0, end_time |-> 0,
      idle_time |-> 0, changed |-> FALSE, query |-> << >>, cmds |-> << >>,
      stopped |-> FALSE, altitude |-> 0, apoapsis |-> 0 ]

\* OrbitalLaunch.__init__: the state after construction
Init ==
    /\ pc = "constructed"
    /\ now = 0
    /\ ut \in UtStarts
    /\ thrust = 1
    /\ telemetry = TelemetryInit
    /\ exports = << >>
    /\ phase = "LAUNCHPAD"
    /\ meco_timer_1 = None
    /\ meco_timer_2 = None
    /\ vessel = change_flight_law("LAUNCHPAD", VesselOnPad).vessel
    /\ entered = [p \in FlightPhase |-> IF p = "LAUNCHPAD" THEN 1 ELSE 0]
    /\ tick = [NoTick("__init__") EXCEPT !.cmds = law("LAUNCHPAD")]

\* __main__: launch.telemetry.do_record = True
StartRecording ==
    /\ pc = "constructed"
    /\ ~telemetry.do_record
    /\ telemetry' = [telemetry EXCEPT !.do_record = TRUE]
    /\ tick' = NoTick("do_record")
    /\ UNCHANGED << pc, now, ut, thrust, exports, phase, meco_timer_1,
                    meco_timer_2, vessel, entered >>

\* OrbitalLaunch.run up to the loop: self.telemetry.init_time()
Run ==
    /\ pc = "constructed"
    /\ pc' = "loop"
    /\ telemetry' = init_time(telemetry, ut)
    /\ tick' = NoTick("init_time")
    /\ UNCHANGED << now, ut, thrust, exports, phase, meco_timer_1,
                    meco_timer_2, vessel, entered >>

\* The body of the loop of OrbitalLaunch.run, the streams delivering alt
\* and apo, vessel.thrust thr, the ut stream advancing by du and the stream
\* reads taking d1 ms.
Iteration(alt, apo, thr, du, d1) ==
    /\ pc = "loop"
    /\ (phase # "GRAVITY_TURN") => thr = thrust
    /\ (~telemetry.do_record) => du = 0
    /\ LET start_time == now
           v1   == issue(vessel, << "speed_mode=surface" >>)
           tel1 == update(telemetry, alt, apo, ut + du)
           t    == start_time + d1
           self == [phase |-> phase, meco_timer_1 |-> meco_timer_1,
                    meco_timer_2 |-> meco_timer_2]
           cp   == check_phase(self, alt, apo, thr, t)
           fl   == run_flight_law(cp, v1)
           stop == should_stop(tel1, alt)
           sr   == IF stop
                   THEN stop_recording(tel1, exports)
                   ELSE [telemetry |-> tel1, exports |-> exports]
           end_time  == t + fl.slept
           idle_time == idle(start_time, end_time)
       IN  /\ ut' = ut + du
           /\ thrust' = thr
           /\ telemetry' = sr.telemetry
           /\ exports' = sr.exports
           /\ phase' = cp.phase
           /\ meco_timer_1' = cp.meco_timer_1
           /\ meco_timer_2' = cp.meco_timer_2
           /\ vessel' = fl.vessel
           /\ entered' = IF cp.changed
                         THEN [entered EXCEPT ![cp.phase] = @ + 1]
                         ELSE entered
           /\ now' = end_time + loop_sleep(idle_time)
           /\ tick' = [ op |-> "tick", start_time |-> start_time,
                        check_time |-> t, end_time |-> end_time,
                        idle_time |-> idle_time, changed |-> cp.changed,
                        query |-> elapsed_query(self, t),
                        cmds |-> << "speed_mode=surface" >> \o fl.cmds,
                        stopped |-> stop, altitude |-> alt, apoapsis |-> apo ]
    /\ UNCHANGED pc

\* One iteration of the loop of OrbitalLaunch.run, within the bounds.
Tick(alt, apo, thr, du, d1) ==
    /\ now <= MaxTime
    /\ telemetry.do_record => Len(telemetry.record) < MaxRecord
    /\ Iteration(alt, apo, thr, du, d1)

Loop ==
    \E alt \in Altitudes, apo \in Apoapses, thr \in Thrusts, du \in UtSteps,
       d1 \in ReadCosts :
        Tick(alt, apo, thr, du, d1)

\* OrbitalLaunch().run(): the controller run without recording.
Next == Run \/ Loop

Spec == Init /\ [][Next]_vars

\* The loop keeps iterating (`while True`) and the clock advances with every
\* iteration.
LiveAltitudes == {100, 600}

LoopLive ==
    \E alt \in LiveAltitudes, apo \in Apoapses, thr \in Thrusts,
       d1 \in ReadCosts :
        Tick(alt, apo, thr, 0, d1)

NextLive == Run \/ LoopLive

SpecLive == Init /\ [][NextLive]_vars /\ WF_vars(LoopLive)

\* The script run as __main__: do_record is set before run().
RunMain == telemetry.do_record /\ Run

LoopMain == now <= MaxRecTime /\ Loop

NextMain == StartRecording \/ RunMain \/ LoopMain

SpecMain == Init /\ [][NextMain]_vars


\* The script run as __main__ through a whole ascent, recording until the
\* altitude exceeds 70000.
LoopAscent ==
    \E alt \in AscentAltitudes, apo \in AscentApoapses, thr \in Thrusts,
       du \in AscentUtSteps \cup {0}, d1 \in ReadCosts :
        /\ now <= MaxTime
        /\ telemetry.do_record => du \in AscentUtSteps
        /\ Len(telemetry.record) < MaxAscentRecord
        /\ Iteration(alt, apo, thr, du, d1)

NextAscent == StartRecording \/ RunMain \/ LoopAscent

SpecAscent == Init /\ [][NextAscent]_vars

(* ----------------------- Telemetry used directly ---------------------- *)

\* Telemetry.init_time() called by a client of the class
T_init_time ==
    /\ pc = "constructed"
    /\ telemetry' = init_time(telemetry, ut)
    /\ tick' = NoTick("init_time")
    /\ UNCHANGED << pc, now, ut, thrust, exports, phase, meco_timer_1,
                    meco_timer_2, vessel, entered >>

\* Telemetry.update() called by a client of the class
T_update(alt, apo, du) ==
    /\ pc = "constructed"
    /\ telemetry.do_record => Len(telemetry.record) < MaxRecord
    /\ (~telemetry.do_record) => du = 0
    /\ telemetry' = update(telemetry, alt, apo, ut + du)
    /\ ut' = ut + du
    /\ tick' = [NoTick("update") EXCEPT !.altitude = alt, !.apoapsis = apo]
    /\ UNCHANGED << pc, now, thrust, exports, phase, meco_timer_1,
                    meco_timer_2, vessel, entered >>

\* Telemetry.stop_recording() called by a client of the class
T_stop_recording ==
    /\ pc = "constructed"
    /\ Len(exports) < MaxExports
    /\ telemetry' = stop_recording(telemetry, exports).telemetry
    /\ exports' = stop_recording(telemetry, exports).exports
    /\ tick' = [NoTick("stop_recording") EXCEPT !.stopped = TRUE]
    /\ UNCHANGED << pc, now, ut, thrust, phase, meco_timer_1, meco_timer_2,
                    vessel, entered >>

\* Stream values delivered to the direct calls of update().
DirectAltitudes == {600, 70001}
DirectApoapses == {80000}

T_updates ==
    \E alt \in DirectAltitudes, apo \in DirectApoapses, du \in UtSteps :
        T_update(alt, apo, du)

NextTelemetry == StartRecording \/ T_init_time \/ T_updates \/ T_stop_recording

SpecTelemetry == Init /\ [][NextTelemetry]_vars

(* ------------------------------ claims -------------------------------- *)

\* The canonical order of the phases.
Canonical ==
    << "LAUNCHPAD", "INITIAL_CLIMB", "INITIAL_TURN", "GRAVITY_TURN", "MECO",
       "MAIN_STAGE_SEPARATION", "SUBORBITAL_ACCELERATION", "SECO",
       "IN_SPACE_TOWARDS_CIRCULARIZATION" >>

CanonicalPhases == { Canonical[i] : i \in 1..Len(Canonical) }

\* Position in the canonical order, 0 for a phase outside it.
Pos(p) ==
    IF p \in CanonicalPhases
    THEN CHOOSE i \in 1..Len(Canonical) : Canonical[i] = p
    ELSE 0

\* C1: the position of the current phase in the canonical order never
\* decreases from one tick to the next, whatever the telemetry and the clock.
C1_PhaseNeverDecreases == [][Pos(phase') >= Pos(phase)]_vars

\* The whole canonical sequence has been walked and a further tick taken.
C1_Witness ==
    /\ phase = "IN_SPACE_TOWARDS_CIRCULARIZATION"
    /\ tick.op = "tick"
    /\ ~tick.changed

\* C2: one tick advances the phase by at most one position of the canonical
\* order, also when the telemetry of the tick satisfies the conditions of
\* later phases.
C2_AtMostOnePhasePerTick ==
    [][Pos(phase') <= Pos(phase) + 1 /\ Pos(phase') # 0]_vars

\* The tick that left INITIAL_CLIMB sampled an altitude above 500 as well.
C2_Witness ==
    /\ phase = "INITIAL_TURN"
    /\ tick.op = "tick"
    /\ tick.changed
    /\ telemetry.altitude = 600

\* The transition table: the condition of phase p on a snapshot, where
\* timerElapsed is what elapsed() answered for the timer of p.
TableCondition(p, altitude, apoapsis, vessel_thrust, timerElapsed) ==
    CASE p = "LAUNCHPAD" -> TRUE
      [] p = "INITIAL_CLIMB" -> altitude > 100
      [] p = "INITIAL_TURN" -> altitude > 500
      [] p = "GRAVITY_TURN" -> vessel_thrust < 1
      [] p = "MECO" -> timerElapsed
      [] p = "MAIN_STAGE_SEPARATION" -> timerElapsed
      [] p = "SUBORBITAL_ACCELERATION" -> apoapsis > 75000
      [] p = "SECO" -> altitude > 70000
      [] OTHER -> FALSE

\* The transition table: the successor listed for phase p.
TableSuccessor(p) ==
    CASE p = "LAUNCHPAD" -> "INITIAL_CLIMB"
      [] p = "INITIAL_CLIMB" -> "INITIAL_TURN"
      [] p = "INITIAL_TURN" -> "GRAVITY_TURN"
      [] p = "GRAVITY_TURN" -> "MECO"
      [] p = "MECO" -> "MAIN_STAGE_SEPARATION"
      [] p = "MAIN_STAGE_SEPARATION" -> "SUBORBITAL_ACCELERATION"
      [] p = "SUBORBITAL_ACCELERATION" -> "SECO"
      [] p = "SECO" -> "IN_SPACE_TOWARDS_CIRCULARIZATION"
      [] OTHER -> p

\* C3: for every phase and snapshot _check_phase yields the successor of the
\* transition table when the condition of the phase holds (returning True)
\* and leaves the phase alone (returning False) when it does not; the
\* comparisons are strict and the last phase has no outgoing transition.
C3_TransitionTable ==
    [][tick'.op = "tick" =>
        LET fires == TableCondition(phase, telemetry'.altitude,
                                    telemetry'.apoapsis, thrust',
                                    tick'.query # << >> /\ tick'.query[1].result)
        IN  /\ tick'.changed = fires
            /\ phase' = IF fires THEN TableSuccessor(phase) ELSE phase]_vars

\* A tick in INITIAL_TURN sampled exactly 500 and did not fire.
C3_Witness ==
    /\ phase = "INITIAL_TURN"
    /\ tick.op = "tick"
    /\ ~tick.changed
    /\ telemetry.altitude = 500

\* C4 as stated: no member of the phase type lying between two consecutively
\* visited phases is passed over.
C4_NoMemberPassedOver ==
    [][phase' # phase => PhaseValue(phase') = PhaseValue(phase) + 1]_vars

\* C4, amended: the current phase is always one of the nine phases of the
\* canonical sequence, every canonical phase up to the current one has been
\* entered exactly once and no other phase has been entered; the three other
\* members of the enum are never the current phase.
C4_CanonicalPhasesInOrder ==
    /\ phase \in CanonicalPhases
    /\ phase \notin {"SECOND_ENGINE_START", "CIRCULARIZATION", "ORBIT"}
    /\ \A p \in FlightPhase :
          entered[p] = IF p \in CanonicalPhases /\ Pos(p) <= Pos(phase) THEN 1 ELSE 0

\* SUBORBITAL_ACCELERATION was entered from MAIN_STAGE_SEPARATION: the enum
\* member SECOND_ENGINE_START between them was passed over.
C4_Witness ==
    /\ phase = "SUBORBITAL_ACCELERATION"
    /\ tick.op = "tick"
    /\ tick.changed
    /\ entered["SECOND_ENGINE_START"] = 0

\* The entry actions listed for each phase.
EntryActions(p) ==
    CASE p = "LAUNCHPAD" -> << "sas=False", "rcs=False" >>
      [] p = "INITIAL_CLIMB" ->
            << "autopilot.engage", "target_pitch_and_heading(90,90)",
               "throttle=1", "activate_next_stage" >>
      [] p = "INITIAL_TURN" -> << "target_pitch_and_heading(87,90)" >>
      [] p = "GRAVITY_TURN" ->
            << "autopilot.disengage", "sas=True", "sas_mode=prograde" >>
      [] p = "MECO" -> << "throttle=0" >>
      [] p = "MAIN_STAGE_SEPARATION" -> << "activate_next_stage" >>
      [] p = "SUBORBITAL_ACCELERATION" -> << "activate_next_stage", "throttle=1" >>
      [] p = "SECO" -> << "throttle=0" >>
      [] OTHER -> << >>

\* The commands that only entry actions issue.
IsEntryCommand(c) == c # "speed_mode=surface"

\* Number of activate_next_stage commands due once phase p is current.
StagesDue(p) ==
    Cardinality({ q \in {"INITIAL_CLIMB", "MAIN_STAGE_SEPARATION",
                         "SUBORBITAL_ACCELERATION"} : Pos(q) <= Pos(p) })

\* C5: the entry actions of each phase are executed exactly once: on the
\* tick of the transition into the phase, with the phase already updated,
\* and on no later tick spent in the phase; sas=False and rcs=False are
\* issued once, at construction, and each of the three activate_next_stage
\* commands once.
C5_EntryActionsOnce ==
    /\ \A i \in 1..Len(Canonical) :
          entered[Canonical[i]] = IF i <= Pos(phase) THEN 1 ELSE 0
    /\ vessel.control.stage = StagesDue(phase)
    /\ tick.op = "__init__" => tick.cmds = EntryActions("LAUNCHPAD")
    /\ tick.op = "tick" =>
          /\ \A i \in 1..Len(tick.cmds) :
                tick.cmds[i] \notin {"sas=False", "rcs=False"}
          /\ tick.changed => Tail(tick.cmds) = EntryActions(phase)
          /\ ~tick.changed =>
                \A i \in 1..Len(tick.cmds) : ~IsEntryCommand(tick.cmds[i])

\* A tick spent in SUBORBITAL_ACCELERATION after the tick that entered it.
C5_Witness ==
    /\ phase = "SUBORBITAL_ACCELERATION"
    /\ tick.op = "tick"
    /\ ~tick.changed
    /\ vessel.control.stage = 3


\* C6: calling stop_recording twice in a row produces exactly one export
\* call, carrying the buffer as it was at the first call; the second call
\* produces no export.
C6_StopRecordingExportsOnce ==
    [][(tick.op = "stop_recording" /\ tick'.op = "stop_recording")
          => exports' = exports]_vars

\* C7: in a run started with recording active the export is invoked at most
\* once: on the first tick whose altitude is above 70000, in that tick; the
\* recording flag is false at the end of that tick and of every later tick,
\* also when the altitude is above 70000 again later.
C7_ExportAtMostOnce ==
    [][/\ Len(exports') <= 1
       /\ (pc = "loop" /\ tick'.op = "tick") =>
            /\ (telemetry.do_record /\ telemetry'.altitude > 70000) =>
                  /\ ~telemetry'.do_record
                  /\ exports = << >>
                  /\ exports' = << telemetry'.record >>
            /\ (telemetry.do_record /\ telemetry'.altitude <= 70000) =>
                  /\ telemetry'.do_record
                  /\ exports' = exports
            /\ ~telemetry.do_record =>
                  /\ ~telemetry'.do_record
                  /\ exports' = exports]_vars

\* Two samples were recorded, the second one above 70000 and exported; a
\* later tick sampled an altitude above 70000 again and exported nothing.
C7_Witness ==
    /\ pc = "loop"
    /\ Len(exports) = 1
    /\ Len(exports[1]) = 3
    /\ exports[1][2][2] <= 70000
    /\ exports[1][3][2] > 70000
    /\ tick.op = "tick"
    /\ ~tick.stopped
    /\ telemetry.altitude > 70000
    /\ ~telemetry.do_record

\* C8 as stated: elapsed() queried at t answers true iff t >= s + d.
C8_ElapsedAtOrAfter ==
    tick.query # << >> =>
        (tick.query[1].result <=>
            tick.query[1].at >= tick.query[1].timer.start_time
                                  + tick.query[1].timer.duration)

\* C8, amended: elapsed() queried at t answers true iff t > s + d: false for
\* every query up to and including s + d, true for every later one; the
\* query leaves start_time and duration of the timer as they were.
C8_ElapsedStrictlyAfter ==
    tick.query # << >> =>
        /\ tick.query[1].result <=>
              tick.query[1].at > tick.query[1].timer.start_time
                                   + tick.query[1].timer.duration
        /\ << tick.query[1].timer >> \in {meco_timer_1, meco_timer_2}

\* elapsed() was queried at exactly start_time + duration.
C8_Witness ==
    /\ tick.query # << >>
    /\ tick.query[1].at = tick.query[1].timer.start_time
                            + tick.query[1].timer.duration
    /\ ~tick.query[1].result

\* C9: the transition into MECO starts a 0.5 s timer at its instant t and
\* MECO -> MAIN_STAGE_SEPARATION (with its staging command) fires on no tick
\* evaluated before t + 0.5 s; that transition starts a second 0.5 s timer at
\* its instant t' and MAIN_STAGE_SEPARATION -> SUBORBITAL_ACCELERATION (the
\* ignition of the next stage) fires on no tick evaluated before t' + 0.5 s,
\* hence not less than 1.0 s after the transition into MECO.
C9_TimeGatedTransitions ==
    [][/\ (phase = "GRAVITY_TURN" /\ phase' = "MECO") =>
            meco_timer_1' = << [start_time |-> tick'.check_time, duration |-> 500] >>
       /\ (phase = "MECO" /\ phase' # "MECO") =>
            /\ phase' = "MAIN_STAGE_SEPARATION"
            /\ tick'.check_time >= meco_timer_1[1].start_time + 500
            /\ meco_timer_2' = << [start_time |-> tick'.check_time, duration |-> 500] >>
            /\ vessel'.control.stage = vessel.control.stage + 1
       /\ (phase = "MAIN_STAGE_SEPARATION" /\ phase' # "MAIN_STAGE_SEPARATION") =>
            /\ phase' = "SUBORBITAL_ACCELERATION"
            /\ tick'.check_time >= meco_timer_2[1].start_time + 500
            /\ tick'.check_time >= meco_timer_1[1].start_time + 1000
            /\ vessel'.control.stage = vessel.control.stage + 1
       /\ (phase \in {"MECO", "MAIN_STAGE_SEPARATION"} /\ tick'.op = "tick"
             /\ phase' = phase) =>
            vessel'.control.stage = vessel.control.stage]_vars

\* The next stage has been ignited by the tick just taken.
C9_Witness ==
    /\ phase = "SUBORBITAL_ACCELERATION"
    /\ tick.op = "tick"
    /\ tick.changed
    /\ vessel.control.stage = 3
    /\ vessel.control.throttle = 1

\* C10: the tick taken in SUBORBITAL_ACCELERATION with an apoapsis above
\* 75000 makes the phase SECO and commands throttle 0 in that tick; from then
\* on the commanded throttle stays 0 and no tick commands another throttle.
C10_SecoCutsThrottle ==
    [][/\ (phase = "SUBORBITAL_ACCELERATION" /\ tick'.op = "tick"
             /\ telemetry'.apoapsis > 75000) =>
            /\ phase' = "SECO"
            /\ \E i \in 1..Len(tick'.cmds) : tick'.cmds[i] = "throttle=0"
            /\ vessel'.control.throttle = 0
       /\ Pos(phase) >= Pos("SECO") =>
            /\ vessel.control.throttle = 0
            /\ vessel'.control.throttle = 0
            /\ \A i \in 1..Len(tick'.cmds) : tick'.cmds[i] # "throttle=1"]_vars

\* SECO was entered on an apoapsis of 80000 and ticks followed.
C10_Witness ==
    /\ phase = "IN_SPACE_TOWARDS_CIRCULARIZATION"
    /\ telemetry.apoapsis = 80000
    /\ tick.op = "tick"
    /\ ~tick.changed
    /\ vessel.control.throttle = 0


\* C11: update() always overwrites altitude and apoapsis with the stream
\* values; when recording it also sets elapsed = ut - start_time and appends
\* exactly one row, when not recording it leaves elapsed and the record as
\* they are; it never changes the recording flag or start_time, and no
\* other operation adds rows to the record.
C11_UpdateFrame ==
    [][/\ tick'.op = "update" =>
            /\ telemetry'.altitude = tick'.altitude
            /\ telemetry'.apoapsis = tick'.apoapsis
            /\ telemetry'.do_record = telemetry.do_record
            /\ telemetry'.start_time = telemetry.start_time
            /\ telemetry.do_record =>
                  /\ telemetry'.elapsed = ut' - telemetry.start_time
                  /\ Len(telemetry'.record) = Len(telemetry.record) + 1
                  /\ SubSeq(telemetry'.record, 1, Len(telemetry.record))
                        = telemetry.record
                  /\ telemetry'.record[Len(telemetry'.record)][1]
                        = telemetry'.elapsed
                  /\ telemetry'.record[Len(telemetry'.record)][2]
                        = tick'.altitude
            /\ ~telemetry.do_record =>
                  /\ telemetry'.elapsed = telemetry.elapsed
                  /\ telemetry'.record = telemetry.record
       /\ telemetry'.record # telemetry.record => tick'.op = "update"]_vars

\* update() ran with recording off after a row had been recorded: the
\* altitude is refreshed and the record still has its one row.
C11_Witness ==
    /\ tick.op = "update"
    /\ ~telemetry.do_record
    /\ Len(telemetry.record) = 2
    /\ telemetry.altitude = 70001
    /\ telemetry.record[2][2] = 600


\* rows is the header followed by samples whose elapsed time does not
\* decrease in row order.
Chronological(rows) ==
    /\ Len(rows) >= 1
    /\ rows[1] = Header
    /\ \A i \in 2..Len(rows) : \A j \in i..Len(rows) : rows[i][1] <= rows[j][1]

\* a is an initial part of b.
IsPrefix(a, b) == Len(a) <= Len(b) /\ SubSeq(b, 1, Len(a)) = a

\* C12: the sample buffer is append-only and in chronological order: the
\* first row is the header, rows once appended are never modified, removed
\* or reordered, the elapsed-time column does not decrease in row order (the
\* ut stream not decreasing, init_time called once before the loop), and the
\* exported sequence has the same order.
C12_RecordAppendOnlyOrdered ==
    [][/\ Chronological(telemetry'.record)
       /\ IsPrefix(telemetry.record, telemetry'.record)
       /\ \A k \in 1..Len(exports') :
             /\ Chronological(exports'[k])
             /\ IsPrefix(exports'[k], telemetry'.record)]_vars

\* Two samples with increasing elapsed time were recorded and exported.
C12_Witness ==
    /\ pc = "loop"
    /\ Len(exports) = 1
    /\ Len(exports[1]) = 3
    /\ exports[1][2][1] < exports[1][3][1]
    /\ exports[1] = telemetry.record


\* C13: the stop-recording check is made on every tick, whatever the phase
\* and whether or not a transition fired: stop_recording is called exactly
\* on the ticks with the flag set and an altitude above 70000, and when the
\* phase is SECO on such a tick the transition out of SECO and the export
\* both happen in that tick.
C13_StopCheckEveryTick ==
    [][tick'.op = "tick" =>
        /\ tick'.stopped <=> (telemetry.do_record /\ tick'.altitude > 70000)
        /\ tick'.stopped =>
              /\ exports' = Append(exports, telemetry'.record)
              /\ ~telemetry'.do_record
        /\ ~tick'.stopped =>
              /\ exports' = exports
              /\ telemetry'.do_record = telemetry.do_record
        /\ (phase = "SECO" /\ telemetry.do_record /\ tick'.altitude > 70000) =>
              /\ phase' = "IN_SPACE_TOWARDS_CIRCULARIZATION"
              /\ tick'.changed
              /\ tick'.stopped
              /\ Len(exports') = 1]_vars

\* The tick that left SECO also exported the record.
C13_Witness ==
    /\ phase = "IN_SPACE_TOWARDS_CIRCULARIZATION"
    /\ tick.op = "tick"
    /\ tick.changed
    /\ tick.stopped
    /\ Len(exports) = 1

\* The record was exported by a tick that fired no transition.
C13_WitnessNoTransition ==
    /\ phase = "MECO"
    /\ tick.op = "tick"
    /\ ~tick.changed
    /\ tick.stopped


\* C14: with processing cost c (ms) an iteration sleeps 100 - c when c < 100
\* and not at all when c >= 100, so the next iteration starts max(100, c)
\* after this one started; every iteration makes exactly one telemetry update
\* (one row while recording) and one phase check (at most one transition),
\* also the iteration after an overrun.
C14_FixedPeriodNoCatchUp ==
    [][tick'.op = "tick" =>
        LET c == tick'.end_time - tick'.start_time
        IN  /\ tick'.start_time = now
            /\ c >= 0
            /\ tick'.idle_time = 100 - c
            /\ now' - tick'.end_time = IF c < 100 THEN 100 - c ELSE 0
            /\ now' - now = IF c > 100 THEN c ELSE 100
            /\ telemetry'.altitude = tick'.altitude
            /\ telemetry.do_record =>
                  Len(telemetry'.record) = Len(telemetry.record) + 1
            /\ ~telemetry.do_record => telemetry'.record = telemetry.record
            /\ tick'.start_time <= tick'.check_time
            /\ tick'.check_time <= tick'.end_time
            /\ Pos(phase') = Pos(phase) + (IF tick'.changed THEN 1 ELSE 0)]_vars

\* The iteration after an overrun of 150 ms: it started when the overrun
\* ended, cost 50 ms itself, slept 50 ms and recorded its one row.
C14_Witness ==
    /\ tick.op = "tick"
    /\ phase = "GRAVITY_TURN"
    /\ ~tick.changed
    /\ tick.start_time = 350
    /\ tick.end_time = 400
    /\ now = 450
    /\ telemetry.do_record
    /\ Len(telemetry.record) = 5


\* C15: the export carries the whole buffer, which is frozen afterwards:
\* the rows written are the header followed by one sample for every tick
\* taken while recording, the last of them the sample of the tick whose
\* altitude first exceeded 70000; after the export the buffer is neither
\* reset nor appended to and recording does not resume.
C15_ExportWholeBufferThenFrozen ==
    [][/\ (tick'.op = "tick" /\ telemetry.do_record) =>
            /\ Len(telemetry'.record) = Len(telemetry.record) + 1
            /\ telemetry'.record[Len(telemetry'.record)][2] = tick'.altitude
            /\ exports = << >>
       /\ exports' # << >> =>
            /\ Len(exports') = 1
            /\ exports'[1] = telemetry'.record
            /\ ~telemetry'.do_record
            /\ Len(exports'[1]) - 1 = ut' - telemetry'.start_time
            /\ exports'[1][Len(exports'[1])][2] > 70000
            /\ \A i \in 2..(Len(exports'[1]) - 1) : exports'[1][i][2] <= 70000
       /\ exports # << >> =>
            /\ exports' = exports
            /\ telemetry'.record = telemetry.record]_vars

\* Three samples were exported, the third the first one above 70000, and a
\* tick taken after the export left the buffer as exported.
C15_Witness ==
    /\ Len(exports) = 1
    /\ Len(exports[1]) = 4
    /\ exports[1][4][2] = 70001
    /\ tick.op = "tick"
    /\ ~tick.stopped
    /\ telemetry.record = exports[1]


\* C16 as stated: a tick in which no transition fires issues no actuator
\* command and makes no other write to the control interface of the vessel.
C16_NoWriteWithoutTransition ==
    (tick.op = "tick" /\ ~tick.changed) => tick.cmds = << >>

\* C16, amended: a tick in which no transition fires, and the tick that
\* enters IN_SPACE_TOWARDS_CIRCULARIZATION, issues no throttle, autopilot,
\* SAS, RCS or staging command; its one write to the control interface is
\* speed_mode = surface, which every tick makes.
C16_OnlySpeedModeWithoutTransition ==
    [][tick'.op = "tick" =>
        /\ tick'.cmds[1] = "speed_mode=surface"
        /\ vessel'.control.speed_mode = "surface"
        /\ (~tick'.changed \/ phase' = "IN_SPACE_TOWARDS_CIRCULARIZATION") =>
              /\ tick'.cmds = << "speed_mode=surface" >>
              /\ vessel'.autopilot = vessel.autopilot
              /\ vessel'.control = [vessel.control EXCEPT !.speed_mode = "surface"]]_vars

\* A tick spent in the last phase wrote speed_mode and nothing else.
C16_Witness ==
    /\ phase = "IN_SPACE_TOWARDS_CIRCULARIZATION"
    /\ tick.op = "tick"
    /\ ~tick.changed
    /\ tick.cmds = << "speed_mode=surface" >>
    /\ vessel.control.throttle = 0
    /\ vessel.control.stage = 3


\* C17: no timer is read before it is created: while the phase is MECO
\* meco_timer_1 is set and while it is MAIN_STAGE_SEPARATION meco_timer_2 is
\* set, so every elapsed() call has a Timer to act on; each timer is created
\* once, by the transition into its phase, and never assigned again.
C17_TimersSetBeforeRead ==
    [][/\ meco_timer_1' # None <=> Pos(phase') >= Pos("MECO")
       /\ meco_timer_2' # None <=> Pos(phase') >= Pos("MAIN_STAGE_SEPARATION")
       /\ tick'.query # << >> =>
             << tick'.query[1].timer >> =
                 IF phase = "MECO" THEN meco_timer_1 ELSE meco_timer_2
       /\ meco_timer_1' # meco_timer_1 =>
             /\ meco_timer_1 = None
             /\ phase = "GRAVITY_TURN"
             /\ phase' = "MECO"
       /\ meco_timer_2' # meco_timer_2 =>
             /\ meco_timer_2 = None
             /\ phase = "MECO"
             /\ phase' = "MAIN_STAGE_SEPARATION"]_vars

\* elapsed() of meco_timer_2 was called and answered, meco_timer_1 still
\* being the timer created on the way into MECO.
C17_Witness ==
    /\ phase = "MAIN_STAGE_SEPARATION"
    /\ tick.op = "tick"
    /\ ~tick.changed
    /\ tick.query # << >>
    /\ << tick.query[1].timer >> = meco_timer_2
    /\ meco_timer_1 # None
    /\ meco_timer_2[1].start_time > meco_timer_1[1].start_time + 500


\* C18: the loop ticking on and the clock advancing, once the phase is MECO
\* the controller reaches SUBORBITAL_ACCELERATION, whatever the telemetry:
\* the two transitions on the way depend on the timers only.  (Stated for
\* the entries into MECO that leave the two waits of 0.5 s, each followed by
\* at most a period and a read, inside the time the loop is followed.)
C18_MecoLeadsToSuborbital ==
    (phase = "MECO" /\ meco_timer_1[1].start_time + 1250 <= MaxTime)
        ~> (phase = "SUBORBITAL_ACCELERATION")

\* SUBORBITAL_ACCELERATION was reached from a MECO entered early enough,
\* on telemetry that would fire no telemetry-driven transition.
C18_Witness ==
    /\ phase = "SUBORBITAL_ACCELERATION"
    /\ tick.op = "tick"
    /\ tick.changed
    /\ meco_timer_1[1].start_time + 1250 <= MaxTime
    /\ telemetry.altitude = 100
    /\ telemetry.apoapsis = 75000


\* C19: at the end of every tick, phase = IN_SPACE_TOWARDS_CIRCULARIZATION
\* implies that the recording flag is false: the exit from SECO and the stop
\* of the recording test the same altitude of the same tick against 70000.
C19_TerminalPhaseNotRecording ==
    (pc = "loop" /\ phase = "IN_SPACE_TOWARDS_CIRCULARIZATION")
        => ~telemetry.do_record

\* The recording was still active when SECO was left (17 samples, the
\* soonest SECO can be left, the last of them above 70000), and a later tick
\* in the terminal phase, back under 70000, finds the flag false.
C19_Witness ==
    /\ phase = "IN_SPACE_TOWARDS_CIRCULARIZATION"
    /\ tick.op = "tick"
    /\ ~tick.changed
    /\ tick.altitude = 600
    /\ ~telemetry.do_record
    /\ Len(exports) = 1
    /\ Len(exports[1]) = 18
    /\ exports[1][18][2] = 70001

====
